---- MODULE Spec2Model ----
(***************************************************************************)
(* Concurrency benchmark harness: the Java producer/consumer pipeline      *)
(* (bounded LinkedBlockingQueue + fixed thread pool, "Strategy A") and the *)
(* Go fan-out pipeline (one goroutine per batch joined by a WaitGroup,     *)
(* "Strategy B").                                                          *)
(***************************************************************************)
EXTENDS Integers, Sequences, FiniteSets, TLC

\* ------------------------------------------------------------------------
\* Bounds of the model (the program's own values are far larger).
\* ------------------------------------------------------------------------
MaxBatches == 5
MaxQueueCapacity == 2
MaxConsumers == 2
MaxRuns == 2
MaxImages == 4
MaxBatchSize == 2
MaxImageSize == 2
MaxTick == 1
MaxMem == 1
MaxCpu == 1
UintBits == 3
MaxLogLines == 2

VARIABLES
    program,          \* which harness runs: "java" (Strategy A) or "go" (B)
    env,              \* which probe of the environment varies between reads
    \* ---- measurements of main (Java and Go) ----
    now,              \* the monotonic clock, counted from the start of the run
    timer,            \* the run's timestamps and durations
    mem,              \* the run's memory snapshots and their difference
    cpu,              \* the run's CPU utilization sample
    totals,           \* the accumulators total*
    runLog,           \* the per-run metric lines appended to the log file
    averages,         \* the averages logged after the loop
    trace,            \* the statements main has executed in this run, in order
    \* ---- the dataset files ----
    loads,            \* how many times the dataset was read from disk
    loadFailed,       \* reading the dataset from disk has failed
    \* ---- a Transform applied to one vector, and the log file ----
    impl,             \* the Transform applied: "go", "cifar" or "tiny"
    vec0,             \* the vector before the first application
    vec,              \* the vector
    applied,          \* how many times the Transform was applied to vec
    logFile,          \* the log file: whether it exists, and its lines
    \* ---- Java harness ----
    queueCapacity,    \* QUEUE_CAPACITY
    numConsumers,     \* NUM_CONSUMERS
    dataset,          \* which Java harness: "cifar" or "tiny" (Tiny ImageNet)
    poolTimedOut,     \* awaitTermination gave up before the pool terminated
    allBatches,       \* the pre-loaded list; allBatches[b] is one image vector
    run,              \* loop variable of main
    mainPc,           \* position of the main thread
    execIdx,          \* consumers submitted so far by processBatches
    queue,            \* the run's BlockingQueue (batch indices, FIFO)
    isDoneProducing,  \* the run's AtomicBoolean
    prodPc,           \* position of the producer thread
    prodIdx,          \* next list index the producer's for-loop will put
    consPc,           \* position of every pool thread
    consBatch,        \* the local 'batch' of every consumer (0 = null)
    putCount,         \* per batch: successful queue.put calls in this run
    takeCount,        \* per batch: successful queue.poll results in this run
    \* ---- Go harness ----
    batchSize,        \* batchSize
    images,           \* the loaded dataset, images[i] is one vector
    labels,           \* the loaded labels
    goRun,            \* loop variable i of main
    goPc,             \* position of the main goroutine
    batches,          \* the slice of ImageBatch built by RunProcessingTask
    spawnIdx,         \* index of the range loop over batches
    wg,               \* the WaitGroup counter
    taskPc,           \* position of every ProcessBatch goroutine
    taskImg,          \* index i of the range loop of every ProcessBatch
    taskElem,         \* index i of the loop inside SimulateImageProcessing
    taskBatch,        \* the ImageBatch value every ProcessBatch was given
    imagesAtStart     \* the dataset as it was when RunProcessingTask was entered

javaVars == <<queueCapacity, numConsumers, dataset, poolTimedOut, allBatches,
              run, mainPc, execIdx,
              queue, isDoneProducing, prodPc, prodIdx, consPc, consBatch,
              putCount, takeCount>>
goVars == <<batchSize, images, labels, goRun, goPc, batches, spawnIdx, wg,
            taskPc, taskImg, taskElem, taskBatch, imagesAtStart>>
metricVars == <<now, timer, mem, cpu, totals, runLog, averages, trace>>
loaderVars == <<loads, loadFailed>>
unitVars == <<impl, vec0, vec, applied, logFile>>
sideVars == <<loaderVars, unitVars>>
vars == <<program, env, javaVars, goVars, metricVars, sideVars>>

NUM_RUNS == MaxRuns
numRuns == MaxRuns
IMAGE_SIZE == MaxImageSize
imageSize == MaxImageSize

\* The vector loaded for item i: every element is a non-zero sample.
LoadedImage(i) == [k \in 1..IMAGE_SIZE |-> i]

NumBatches == Len(allBatches)

\* static final int BATCH_SIZE = 500 (CIFAR-10): declared, and read nowhere
BATCH_SIZE == MaxBatchSize

\* loadCifar10Dataset: allBatches.add(new float[][]{image}), the float[][] of
\* entry b of the list has the one row image
BatchVectors(b) == <<allBatches[b]>>

\* the number of vectors loadCifar10Dataset has read into the list
VectorsLoaded == NumBatches
Consumers == 1..numConsumers

\* ------------------------------------------------------------------------
\* Pure helpers of the Java harness
\* ------------------------------------------------------------------------

\* LinkedBlockingQueue(QUEUE_CAPACITY).put proceeds only below capacity.
CanPutNoBound(q) == TRUE
CanPutOffByOne(q) == Len(q) < queueCapacity - 1
CanPutOverByOne(q) == Len(q) < queueCapacity + 1
CanPut(q) == Len(q) < queueCapacity

\* queue.put(batch) inserts at the tail of the LinkedBlockingQueue.
AfterPutFront(q, b) == <<b>> \o q
AfterPut(q, b) == Append(q, b)

\* queue.isEmpty() in the consumer's loop condition.
QueueIsEmptyAlways(q) == TRUE
QueueIsEmpty(q) == Len(q) = 0

\* queue.poll removes the head it returns.
AfterPollPeek(q) == q
AfterPoll(q) == Tail(q)

\* poll returned null: the if is skipped and the loop condition is read again.
OnPollTimeoutExit == "exited"
OnPollTimeout == "check_done"

\* processBatch: image[i] *= 2 for every element of the batch's image.
processBatchNoop(image) == image
processBatch(image) == [k \in DOMAIN image |-> image[k] * 2]

Min(a, b) == IF a < b THEN a ELSE b

\* A pixel of a BufferedImage is the packed integer (r << 16) | (g << 8) | b.
Red(rgb) == (rgb \div 65536) % 256
Green(rgb) == (rgb \div 256) % 256
Blue(rgb) == rgb % 256
Pack(r, g, b) == r * 65536 + g * 256 + b

\* processImage (Tiny ImageNet), one pixel: the channels are unpacked, each
\* channel c becomes Math.min(c * 2, 255), and the pixel is packed again.
DoubleChannelWrapped(c) == (c * 2) % 256
DoubleChannel(c) == Min(c * 2, 255)
processPixel(rgb) ==
    Pack(DoubleChannel(Red(rgb)), DoubleChannel(Green(rgb)),
         DoubleChannel(Blue(rgb)))

\* processImage (Tiny ImageNet): every pixel of the image, in place.
processImage(image) == [k \in DOMAIN image |-> processPixel(image[k])]

\* the transformation a consumer applies to what it dequeued
Transform(ds, image) ==
    IF ds = "tiny" THEN processImage(image) ELSE processBatch(image)

\* ------------------------------------------------------------------------
\* Probes of the environment and arithmetic of the measurements
\* ------------------------------------------------------------------------

RECURSIVE Pow2(_)
Pow2(n) == IF n = 0 THEN 1 ELSE 2 * Pow2(n - 1)

\* What the monotonic clock (System.nanoTime, time.Now) may have advanced by
\* between two consecutive reads: nothing, or a whole interval.
ClockAdvances == IF env = "clock" THEN {0, MaxTick} ELSE {1}

\* What a memory snapshot (totalMemory - freeMemory, MemStats.Alloc) may be.
MemSamples == IF env = "memory" THEN 0..MaxMem ELSE {1}

\* What a CPU utilization sample may be.
CpuSamples == IF env = "cpu" THEN 0..MaxCpu ELSE {1}

NoTimer == [startOverhead |-> 0, startExecution |-> 0, executionTime |-> 0,
            endOverhead |-> 0, overhead |-> 0]
NoMem == [before |-> 0, after |-> 0, usage |-> 0]
NoTotals == [executionTime |-> 0, overhead |-> 0, memory |-> 0, cpu |-> 0]

\* nanoTime() - startTime; time.Since(start) at the instant t
ElapsedSwapped(t, start) == start - t
Elapsed(t, start) == t - start

\* long memoryUsage = memoryAfter - memoryBefore (signed 64-bit; the model's
\* samples are far from the ends of the range)
MemoryUsageJava(after, before) == after - before

\* memoryUsage := memoryAfter - memoryBefore on uint64 operands: the
\* difference modulo 2^64 (2^UintBits in the model)
UintMod == Pow2(UintBits)
MemoryUsageGo(after, before) == (after - before + UintMod) % UintMod

\* totalMemoryUsage += memoryUsage on uint64
Uint64Add(a, b) == (a + b) % UintMod

\* total / NUM_RUNS in floating point (or Duration division): the quotient
\* kept as the pair <<dividend, divisor>>
Average(total, n) == <<total, n>>

\* the line of metrics logged for a run and added to the totals
RunMetrics == [executionTime |-> timer.executionTime,
               overhead |-> timer.overhead,
               memory |-> mem.usage,
               cpu |-> cpu]

\* ------------------------------------------------------------------------
\* Java: main thread
\* ------------------------------------------------------------------------

\* The statements of the loop body up to the call of processBatches /
\* processImages, in program order.  CIFAR-10 starts the producer before it
\* reads startOverheadTime; Tiny ImageNet reads startOverheadTime first.
JavaOrderMemLate(ds) ==
    IF ds = "tiny"
    THEN <<"start_overhead", "start_producer", "start_time", "mem_before",
           "execute">>
    ELSE <<"start_producer", "start_overhead", "start_time", "mem_before",
           "execute">>
JavaOrder(ds) ==
    IF ds = "tiny"
    THEN <<"mem_before", "start_overhead", "start_producer", "start_time",
           "execute">>
    ELSE <<"mem_before", "start_producer", "start_overhead", "start_time",
           "execute">>

\* the statement after pc in that order
Following(ds, pc) ==
    LET o == JavaOrder(ds)
        i == CHOOSE j \in 1..Len(o) : o[j] = pc
    IN o[i + 1]

javaConfig == <<queueCapacity, numConsumers, dataset>>
javaPipeline == <<allBatches, queue, isDoneProducing, prodPc, prodIdx,
                  consPc, consBatch, putCount, takeCount>>

\* main (CIFAR-10): allBatches = loadCifar10Dataset(dataDir), before the loop
\* over the runs.  The Tiny ImageNet main has no such statement.
JLoad ==
    /\ mainPc = "load"
    /\ loads' = loads + 1
    /\ mainPc' = "loop"
    /\ UNCHANGED <<program, env, javaConfig, javaPipeline, poolTimedOut, run,
                   execIdx, goVars, metricVars, loadFailed, unitVars>>

\* loadCifar10Dataset throws (IOException, EOFException): main declares
\* "throws Exception", the exception leaves main and the JVM exits.
JLoadFails ==
    /\ mainPc = "load"
    /\ loadFailed' = TRUE
    /\ mainPc' = "aborted_load"
    /\ UNCHANGED <<program, env, javaConfig, javaPipeline, poolTimedOut, run,
                   execIdx, goVars, metricVars, loads, unitVars>>

\* new AtomicBoolean(false): the flag object of a run
ReusedFlag == isDoneProducing
NewFlag == FALSE

\* for (run...) { queue = new LinkedBlockingQueue; isDoneProducing = new
\* AtomicBoolean(false); producer = new Thread(..) }: the locals of the loop
\* body are fresh in every iteration
JNewRun ==
    /\ mainPc = "loop"
    /\ run < NUM_RUNS
    /\ queue' = <<>>
    /\ isDoneProducing' = NewFlag
    /\ prodPc' = "new"
    /\ prodIdx' = 1
    /\ consPc' = [c \in Consumers |-> "unstarted"]
    /\ consBatch' = [c \in Consumers |-> 0]
    /\ putCount' = [b \in 1..NumBatches |-> 0]
    /\ takeCount' = [b \in 1..NumBatches |-> 0]
    /\ execIdx' = 0
    /\ now' = 0
    /\ timer' = NoTimer
    /\ mem' = NoMem
    /\ cpu' = 0
    /\ trace' = <<>>
    /\ mainPc' = JavaOrder(dataset)[1]
    /\ UNCHANGED <<program, env, javaConfig, poolTimedOut, allBatches, run,
                   goVars, sideVars, totals, runLog, averages>>

\* System.gc(); memoryBefore = totalMemory() - freeMemory()
JMemBefore ==
    /\ mainPc = "mem_before"
    /\ \E m \in MemSamples : mem' = [mem EXCEPT !.before = m]
    /\ trace' = Append(trace, "mem_before")
    /\ mainPc' = Following(dataset, "mem_before")
    /\ UNCHANGED <<program, env, javaConfig, javaPipeline, poolTimedOut, run,
                   execIdx, goVars, sideVars, now, timer, cpu, totals, runLog,
                   averages>>

\* producer.start()
JStartProducer ==
    /\ mainPc = "start_producer"
    /\ prodPc' = (IF dataset = "tiny" THEN "walk" ELSE "put")
    /\ trace' = Append(trace, "start_producer")
    /\ mainPc' = Following(dataset, "start_producer")
    /\ UNCHANGED <<program, env, javaConfig, poolTimedOut, allBatches, run,
                   execIdx, queue, isDoneProducing, prodIdx, consPc,
                   consBatch, putCount, takeCount, goVars, sideVars, now, timer, mem,
                   cpu, totals, runLog, averages>>

\* startOverheadTime = System.nanoTime()
JStartOverhead ==
    /\ mainPc = "start_overhead"
    /\ \E d \in ClockAdvances :
          /\ now' = now + d
          /\ timer' = [timer EXCEPT !.startOverhead = now + d]
    /\ trace' = Append(trace, "start_overhead")
    /\ mainPc' = Following(dataset, "start_overhead")
    /\ UNCHANGED <<program, env, javaConfig, javaPipeline, poolTimedOut, run,
                   execIdx, goVars, sideVars, mem, cpu, totals, runLog, averages>>

\* startTime = System.nanoTime(); processBatches(..) is entered
JStartTime ==
    /\ mainPc = "start_time"
    /\ \E d \in ClockAdvances :
          /\ now' = now + d
          /\ timer' = [timer EXCEPT !.startExecution = now + d]
    /\ trace' = Append(trace, "start_time")
    /\ mainPc' = Following(dataset, "start_time")
    /\ UNCHANGED <<program, env, javaConfig, javaPipeline, poolTimedOut, run,
                   execIdx, goVars, sideVars, mem, cpu, totals, runLog, averages>>

\* processBatches: consumers.execute(consumerTask), once per pool thread
JExecute ==
    /\ mainPc = "execute"
    /\ execIdx < numConsumers
    /\ consPc' = [consPc EXCEPT ![execIdx + 1] = "check_done"]
    /\ execIdx' = execIdx + 1
    /\ trace' = Append(trace, "execute")
    /\ UNCHANGED <<program, env, javaConfig, poolTimedOut, allBatches, run,
                   mainPc, queue, isDoneProducing, prodPc, prodIdx, consBatch,
                   putCount, takeCount, goVars, sideVars, now, timer, mem, cpu, totals,
                   runLog, averages>>

\* processBatches: consumers.shutdown()
JShutdown ==
    /\ mainPc = "execute"
    /\ execIdx = numConsumers
    /\ mainPc' = "await"
    /\ UNCHANGED <<program, env, javaConfig, javaPipeline, poolTimedOut, run,
                   execIdx, goVars, sideVars, metricVars>>

\* A pool thread is gone when its task returned or died.
ConsumerGone(c) == consPc[c] \in {"exited", "failed"}

\* processBatches: consumers.awaitTermination(..) reports termination
PoolTerminatedAny == \E c \in Consumers : ConsumerGone(c)
PoolTerminated == \A c \in Consumers : ConsumerGone(c)

JAwaitTermination ==
    /\ mainPc = "await"
    /\ PoolTerminated
    /\ trace' = Append(trace, "await_returned")
    /\ mainPc' = "end_timers"
    /\ UNCHANGED <<program, env, javaConfig, javaPipeline, poolTimedOut, run,
                   execIdx, goVars, sideVars, now, timer, mem, cpu, totals, runLog,
                   averages>>

\* processBatches: awaitTermination(10, MINUTES) returns false because the
\* ten minutes passed (or throws InterruptedException, which is caught and
\* printed): processBatches returns normally in both cases.  The pool threads
\* still running are left behind; the model lets that happen in the last run.
JAwaitTimesOut ==
    /\ mainPc = "await"
    /\ ~PoolTerminated
    /\ run = NUM_RUNS - 1
    /\ poolTimedOut' = TRUE
    /\ trace' = Append(trace, "await_returned")
    /\ mainPc' = "end_timers"
    /\ UNCHANGED <<program, env, javaConfig, javaPipeline, run, execIdx,
                   goVars, sideVars, now, timer, mem, cpu, totals, runLog, averages>>

\* elapsedTime = System.nanoTime() - startTime
JEndTime ==
    /\ mainPc = "end_timers"
    /\ \E d \in ClockAdvances :
          /\ now' = now + d
          /\ timer' = [timer EXCEPT
                          !.executionTime = Elapsed(now + d, timer.startExecution)]
    /\ trace' = Append(trace, "end_time")
    /\ mainPc' = "end_overhead"
    /\ UNCHANGED <<program, env, javaConfig, javaPipeline, poolTimedOut, run,
                   execIdx, goVars, sideVars, mem, cpu, totals, runLog, averages>>

\* endOverheadTime = System.nanoTime()
JEndOverhead ==
    /\ mainPc = "end_overhead"
    /\ \E d \in ClockAdvances :
          /\ now' = now + d
          /\ timer' = [timer EXCEPT !.endOverhead = now + d]
    /\ trace' = Append(trace, "end_overhead")
    /\ mainPc' = "join"
    /\ UNCHANGED <<program, env, javaConfig, javaPipeline, poolTimedOut, run,
                   execIdx, goVars, sideVars, mem, cpu, totals, runLog, averages>>

\* Thread.join returns once the thread has terminated
JoinReturnsEarly(pc) == TRUE
JoinReturns(pc) == pc = "terminated"

\* producer.join()
JJoin ==
    /\ mainPc = "join"
    /\ JoinReturns(prodPc)
    /\ trace' = Append(trace, "join_returned")
    /\ mainPc' = "mem_after"
    /\ UNCHANGED <<program, env, javaConfig, javaPipeline, poolTimedOut, run,
                   execIdx, goVars, sideVars, now, timer, mem, cpu, totals, runLog,
                   averages>>

\* System.gc(); memoryAfter = ..; memoryUsage = memoryAfter - memoryBefore
JMemAfter ==
    /\ mainPc = "mem_after"
    /\ \E m \in MemSamples :
          mem' = [mem EXCEPT !.after = m,
                             !.usage = MemoryUsageJava(m, mem.before)]
    /\ trace' = Append(trace, "mem_after")
    /\ mainPc' = "cpu"
    /\ UNCHANGED <<program, env, javaConfig, javaPipeline, poolTimedOut, run,
                   execIdx, goVars, sideVars, now, timer, cpu, totals, runLog,
                   averages>>

\* overheadTime = endOverheadTime - startOverheadTime;
\* cpuUsage = osBean.getProcessCpuLoad()
JCpu ==
    /\ mainPc = "cpu"
    /\ timer' = [timer EXCEPT
                    !.overhead = Elapsed(timer.endOverhead, timer.startOverhead)]
    /\ \E u \in CpuSamples : cpu' = u
    /\ mainPc' = "record"
    /\ UNCHANGED <<program, env, javaConfig, javaPipeline, poolTimedOut, run,
                   execIdx, goVars, sideVars, now, mem, totals, runLog, averages,
                   trace>>

\* total* += ...; logMessage(..) of the four metrics; run++
JRecord ==
    /\ mainPc = "record"
    /\ totals' = [executionTime |-> totals.executionTime + timer.executionTime,
                  overhead |-> totals.overhead + timer.overhead,
                  memory |-> totals.memory + mem.usage,
                  cpu |-> totals.cpu + cpu]
    /\ runLog' = Append(runLog, RunMetrics)
    /\ run' = run + 1
    /\ mainPc' = "loop"
    /\ UNCHANGED <<program, env, javaConfig, javaPipeline, poolTimedOut,
                   execIdx, goVars, sideVars, now, timer, mem, cpu, averages, trace>>

\* after the loop: the averages are computed and logged
JAverages ==
    /\ mainPc = "loop"
    /\ run >= NUM_RUNS
    /\ averages' = [executionTime |-> Average(totals.executionTime, NUM_RUNS),
                    overhead |-> Average(totals.overhead, NUM_RUNS),
                    memory |-> Average(totals.memory, NUM_RUNS),
                    cpu |-> Average(totals.cpu, NUM_RUNS)]
    /\ mainPc' = "done"
    /\ UNCHANGED <<program, env, javaConfig, javaPipeline, poolTimedOut, run,
                   execIdx, goVars, sideVars, now, timer, mem, cpu, totals, runLog,
                   trace>>

\* ------------------------------------------------------------------------
\* Java: producer thread (produceBatches)
\* ------------------------------------------------------------------------

\* queue.put(batch) for the next batch of the list.  Tiny ImageNet decodes
\* the next file into a fresh image (ImageIO.read) and puts that.
ProducerPut ==
    /\ prodPc = "put"
    /\ prodIdx <= NumBatches
    /\ CanPut(queue)
    /\ queue' = AfterPut(queue, prodIdx)
    /\ putCount' = [putCount EXCEPT ![prodIdx] = @ + 1]
    /\ allBatches' = IF dataset = "tiny"
                     THEN [allBatches EXCEPT ![prodIdx] = LoadedImage(prodIdx)]
                     ELSE allBatches
    /\ prodIdx' = prodIdx + 1
    /\ UNCHANGED <<program, env, queueCapacity, numConsumers, dataset,
                   poolTimedOut, run, mainPc,
                   execIdx, isDoneProducing, prodPc, consPc, consBatch,
                   takeCount, goVars, sideVars, metricVars>>

\* the for-each loop is exhausted: control reaches the finally block
ProducerLoopEnd ==
    /\ prodPc = "put"
    /\ prodIdx > NumBatches
    /\ prodPc' = "finally"
    /\ UNCHANGED <<program, env, queueCapacity, numConsumers, dataset,
                   poolTimedOut, allBatches, run, mainPc,
                   execIdx, queue, isDoneProducing, prodIdx, consPc, consBatch,
                   putCount, takeCount, goVars, sideVars, metricVars>>

\* produceImages (Tiny ImageNet): Files.walk(Paths.get(directory)) opens the
\* dataset directory; the files are then read one by one in the loop.
ProducerWalk ==
    /\ prodPc = "walk"
    /\ loads' = loads + 1
    /\ prodPc' = "put"
    /\ UNCHANGED <<program, env, queueCapacity, numConsumers, dataset,
                   poolTimedOut, allBatches, run, mainPc,
                   execIdx, queue, isDoneProducing, prodIdx, consPc, consBatch,
                   putCount, takeCount, goVars, metricVars, loadFailed,
                   unitVars>>

\* Files.walk throws: the outer catch logs "Error walking dataset directory"
\* and the finally block runs; nothing is enqueued.
ProducerWalkFails ==
    /\ prodPc = "walk"
    /\ loadFailed' = TRUE
    /\ prodPc' = "finally"
    /\ UNCHANGED <<program, env, queueCapacity, numConsumers, dataset,
                   poolTimedOut, allBatches, run, mainPc,
                   execIdx, queue, isDoneProducing, prodIdx, consPc, consBatch,
                   putCount, takeCount, goVars, metricVars, loads, unitVars>>

\* queue.put throws (InterruptedException): CIFAR-10 catches it outside the
\* loop (printStackTrace, then finally); Tiny ImageNet catches it per file,
\* logs it and goes on with the next file.
ProducerPutFails ==
    /\ prodPc = "put"
    /\ prodIdx <= NumBatches
    /\ IF dataset = "tiny"
       THEN prodIdx' = prodIdx + 1 /\ prodPc' = prodPc
       ELSE prodIdx' = prodIdx /\ prodPc' = "finally"
    /\ UNCHANGED <<program, env, queueCapacity, numConsumers, dataset,
                   poolTimedOut, allBatches, run, mainPc,
                   execIdx, queue, isDoneProducing, consPc, consBatch,
                   putCount, takeCount, goVars, sideVars, metricVars>>

\* finally { isDoneProducing.set(true); }
ProducerSetDone ==
    /\ prodPc = "finally"
    /\ isDoneProducing' = TRUE
    /\ prodPc' = "exiting"
    /\ UNCHANGED <<program, env, queueCapacity, numConsumers, dataset,
                   poolTimedOut, allBatches, run, mainPc,
                   execIdx, queue, prodIdx, consPc, consBatch,
                   putCount, takeCount, goVars, sideVars, metricVars>>

\* produceBatches returns and the producer thread terminates
ProducerExit ==
    /\ prodPc = "exiting"
    /\ prodPc' = "terminated"
    /\ UNCHANGED <<program, env, queueCapacity, numConsumers, dataset,
                   poolTimedOut, allBatches, run, mainPc,
                   execIdx, queue, isDoneProducing, prodIdx, consPc, consBatch,
                   putCount, takeCount, goVars, sideVars, metricVars>>

\* ------------------------------------------------------------------------
\* Java: consumer threads (consumerTask)
\* ------------------------------------------------------------------------

\* while (!isDoneProducing.get() || ...): the first operand
ConsumerCheckDone(c) ==
    /\ consPc[c] = "check_done"
    /\ consPc' = [consPc EXCEPT ![c] =
                     IF ~isDoneProducing THEN "poll" ELSE "check_empty"]
    /\ UNCHANGED <<program, env, queueCapacity, numConsumers, dataset,
                   poolTimedOut, allBatches, run, mainPc,
                   execIdx, queue, isDoneProducing, prodPc, prodIdx, consBatch,
                   putCount, takeCount, goVars, sideVars, metricVars>>

\* while (... || !queue.isEmpty()): the second operand, read after the first
ConsumerCheckEmpty(c) ==
    /\ consPc[c] = "check_empty"
    /\ consPc' = [consPc EXCEPT ![c] =
                     IF ~QueueIsEmpty(queue) THEN "poll" ELSE "exited"]
    /\ UNCHANGED <<program, env, queueCapacity, numConsumers, dataset,
                   poolTimedOut, allBatches, run, mainPc,
                   execIdx, queue, isDoneProducing, prodPc, prodIdx, consBatch,
                   putCount, takeCount, goVars, sideVars, metricVars>>

\* batch = queue.poll(1, SECONDS): the head, or null after the wait window
ConsumerPoll(c) ==
    /\ consPc[c] = "poll"
    /\ IF Len(queue) > 0
       THEN /\ consBatch' = [consBatch EXCEPT ![c] = Head(queue)]
            /\ queue' = AfterPoll(queue)
            /\ takeCount' = [takeCount EXCEPT ![Head(queue)] = @ + 1]
            /\ consPc' = [consPc EXCEPT ![c] = "process"]
       ELSE /\ consBatch' = [consBatch EXCEPT ![c] = 0]
            /\ consPc' = [consPc EXCEPT ![c] = OnPollTimeout]
            /\ UNCHANGED <<queue, takeCount>>
    /\ UNCHANGED <<program, env, queueCapacity, numConsumers, dataset,
                   poolTimedOut, allBatches, run, mainPc,
                   execIdx, isDoneProducing, prodPc, prodIdx, putCount, goVars, sideVars, metricVars>>

\* if (batch != null) processBatch(batch);
ConsumerProcess(c) ==
    /\ consPc[c] = "process"
    /\ allBatches' = [allBatches EXCEPT
                         ![consBatch[c]] = Transform(dataset, @)]
    /\ consBatch' = [consBatch EXCEPT ![c] = 0]
    /\ consPc' = [consPc EXCEPT ![c] = "check_done"]
    /\ UNCHANGED <<program, env, queueCapacity, numConsumers, dataset,
                   poolTimedOut, run, mainPc,
                   execIdx, queue, isDoneProducing, prodPc, prodIdx,
                   putCount, takeCount, goVars, sideVars, metricVars>>

\* processBatch throws: consumerTask catches InterruptedException only, so
\* the exception ends the pool thread
ConsumerProcessFails(c) ==
    /\ consPc[c] = "process"
    /\ consPc' = [consPc EXCEPT ![c] = "failed"]
    /\ UNCHANGED <<program, env, queueCapacity, numConsumers, dataset,
                   poolTimedOut, allBatches, run, mainPc,
                   execIdx, queue, isDoneProducing, prodPc, prodIdx, consBatch,
                   putCount, takeCount, goVars, sideVars, metricVars>>

JavaNext ==
    \/ JNewRun \/ JMemBefore \/ JStartProducer \/ JStartOverhead
    \/ JStartTime \/ JExecute \/ JShutdown \/ JAwaitTermination
    \/ JEndTime \/ JEndOverhead \/ JJoin \/ JMemAfter \/ JCpu
    \/ JRecord \/ JAverages \/ JLoad
    \/ ProducerPut \/ ProducerLoopEnd \/ ProducerSetDone \/ ProducerExit
    \/ ProducerWalk
    \/ \E c \in Consumers : ConsumerCheckDone(c)
    \/ \E c \in Consumers : ConsumerCheckEmpty(c)
    \/ \E c \in Consumers : ConsumerPoll(c)
    \/ \E c \in Consumers : ConsumerProcess(c)

JavaFaults ==
    \/ ProducerPutFails
    \/ JLoadFails
    \/ ProducerWalkFails
    \/ JAwaitTimesOut
    \/ \E c \in Consumers : ConsumerProcessFails(c)

\* ------------------------------------------------------------------------
\* Go: RunProcessingTask and ProcessBatch
\* ------------------------------------------------------------------------

\* numBatches := totalImages / batchSize; batches[i] = images[start:end] with
\* start = i*batchSize, end = start + batchSize (0-based, half open)
MakeBatchesOverlap(totalImages, bs) ==
    [i \in 1..(totalImages \div bs) |->
        [start |-> IF i = 1 THEN 0 ELSE (i - 1) * bs - 1,
         end |-> (i - 1) * bs + bs,
         labelStart |-> (i - 1) * bs,
         labelEnd |-> (i - 1) * bs + bs]]
MakeBatchesCeil(totalImages, bs) ==
    [i \in 1..((totalImages + bs - 1) \div bs) |->
        [start |-> (i - 1) * bs,
         end |-> Min((i - 1) * bs + bs, totalImages),
         labelStart |-> (i - 1) * bs,
         labelEnd |-> Min((i - 1) * bs + bs, totalImages)]]
MakeBatches(totalImages, bs) ==
    [i \in 1..(totalImages \div bs) |->
        [start |-> (i - 1) * bs,
         end |-> (i - 1) * bs + bs,
         labelStart |-> (i - 1) * bs,
         labelEnd |-> (i - 1) * bs + bs]]

\* the zero value of ImageBatch
NoBatch == [start |-> 0, end |-> 0, labelStart |-> 0, labelEnd |-> 0]

\* len(batch.Images) of a slice images[start:end]
BatchLenShort(batch) == batch.end - batch.start - 1
BatchLen(batch) == batch.end - batch.start

\* the index into images (1-based) of batch.Images[i] (0-based)
ImageIndex(batch, i) == batch.start + i + 1

Tasks == 1..Len(batches)

\* for _, batch := range batches: the value of batch in iteration i (1-based)
RangeBatchFirst(i) == batches[1]
RangeBatch(i) == batches[i]

\* for _, image := range batch.Images in ProcessBatch: the loop ends after
\* the last image
RangeExhaustedEarly(batch, i) == i >= BatchLen(batch) - 1
RangeExhausted(batch, i) == i = BatchLen(batch)

\* main: images, labels, err := LoadCIFAR10(dataDir), before the loop over
\* the runs
GLoad ==
    /\ goPc = "load"
    /\ loads' = loads + 1
    /\ goPc' = "loop"
    /\ UNCHANGED <<program, env, javaVars, batchSize, images, labels, goRun,
                   batches, spawnIdx, wg, taskPc, taskImg, taskElem,
                   taskBatch, imagesAtStart, metricVars, loadFailed, unitVars>>

\* LoadCIFAR10 returns an error (ioutil.ReadFile) and main calls log.Fatalf,
\* or it indexes past the end of a short file and the process panics.
GLoadFails ==
    /\ goPc = "load"
    /\ loadFailed' = TRUE
    /\ goPc' = "aborted_load"
    /\ UNCHANGED <<program, env, javaVars, batchSize, images, labels, goRun,
                   batches, spawnIdx, wg, taskPc, taskImg, taskElem,
                   taskBatch, imagesAtStart, metricVars, loads, unitVars>>

\* for i := 0; i < numRuns; i++ { log; runtime.ReadMemStats(&memStatsBefore);
\* memoryBefore := memStatsBefore.Alloc: the locals of the loop body are fresh
\* in every iteration
GBeginRun ==
    /\ goPc = "loop"
    /\ goRun < numRuns
    /\ now' = 0
    /\ timer' = NoTimer
    /\ \E m \in MemSamples : mem' = [NoMem EXCEPT !.before = m]
    /\ cpu' = 0
    /\ trace' = <<"mem_before">>
    /\ goPc' = "divide"
    /\ UNCHANGED <<program, env, javaVars, sideVars, batchSize, images, labels, goRun,
                   batches, spawnIdx, wg, taskPc, taskImg, taskElem,
                   taskBatch, imagesAtStart, totals, runLog, averages>>

\* RunProcessingTask: divide into batches
GDivide ==
    /\ goPc = "divide"
    /\ batches' = MakeBatches(Len(images), batchSize)
    /\ imagesAtStart' = images
    /\ taskPc' = [t \in DOMAIN batches' |-> "unspawned"]
    /\ taskImg' = [t \in DOMAIN batches' |-> 0]
    /\ taskElem' = [t \in DOMAIN batches' |-> 0]
    /\ taskBatch' = [t \in DOMAIN batches' |-> NoBatch]
    /\ spawnIdx' = 0
    /\ goPc' = "start_timers"
    /\ UNCHANGED <<program, env, javaVars, sideVars, metricVars, batchSize, images,
                   labels, goRun, wg>>

\* startOverhead := time.Now(); startExecution := time.Now(); var wg
GStartTimers ==
    /\ goPc = "start_timers"
    /\ \E d1, d2 \in ClockAdvances :
          /\ timer' = [timer EXCEPT !.startOverhead = now + d1,
                                    !.startExecution = now + d1 + d2]
          /\ now' = now + d1 + d2
    /\ trace' = trace \o <<"start_overhead", "start_execution">>
    /\ wg' = 0
    /\ goPc' = "add"
    /\ UNCHANGED <<program, env, javaVars, sideVars, batchSize, images, labels, goRun,
                   batches, spawnIdx, taskPc, taskImg, taskElem, taskBatch,
                   imagesAtStart, mem, cpu, totals, runLog, averages>>

\* wg.Add(1) on the counter
AfterAddNothing(counter) == counter
AfterAdd(counter) == counter + 1

\* for _, batch := range batches { wg.Add(1)
GAdd ==
    /\ goPc = "add"
    /\ spawnIdx < Len(batches)
    /\ wg' = AfterAdd(wg)
    /\ goPc' = "go"
    /\ UNCHANGED <<program, env, javaVars, sideVars, metricVars, batchSize, images,
                   labels, goRun, batches, spawnIdx, taskPc, taskImg,
                   taskElem, taskBatch, imagesAtStart>>

\* go ProcessBatch(batch, &wg) }
GGo ==
    /\ goPc = "go"
    /\ taskPc' = [taskPc EXCEPT ![spawnIdx + 1] = "loop"]
    /\ taskBatch' = [taskBatch EXCEPT ![spawnIdx + 1] = RangeBatch(spawnIdx + 1)]
    /\ spawnIdx' = spawnIdx + 1
    /\ trace' = Append(trace, "go")
    /\ goPc' = "add"
    /\ UNCHANGED <<program, env, javaVars, sideVars, batchSize, images, labels, goRun,
                   batches, wg, taskImg, taskElem, imagesAtStart, now, timer,
                   mem, cpu, totals, runLog, averages>>

\* the range loop over batches is exhausted: wg.Wait() is called
GCallWait ==
    /\ goPc = "add"
    /\ spawnIdx = Len(batches)
    /\ goPc' = "wait"
    /\ UNCHANGED <<program, env, javaVars, sideVars, metricVars, batchSize, images,
                   labels, goRun, batches, spawnIdx, wg, taskPc, taskImg,
                   taskElem, taskBatch, imagesAtStart>>

\* wg.Wait() unblocks when the counter is zero
WaitUnblocksEarly(counter) == counter <= 1
WaitUnblocksPositive(counter) == counter > 0
WaitUnblocks(counter) == counter = 0

GWait ==
    /\ goPc = "wait"
    /\ WaitUnblocks(wg)
    /\ trace' = Append(trace, "wait_returned")
    /\ goPc' = "end_timers"
    /\ UNCHANGED <<program, env, javaVars, sideVars, batchSize, images, labels, goRun,
                   batches, spawnIdx, wg, taskPc, taskImg, taskElem,
                   taskBatch, imagesAtStart, now, timer, mem, cpu, totals,
                   runLog, averages>>

\* executionTime := time.Since(startExecution);
\* concurrencyOverhead := time.Since(startOverhead); return
GReturn ==
    /\ goPc = "end_timers"
    /\ \E d1, d2 \in ClockAdvances :
          /\ timer' = [timer EXCEPT
                 !.executionTime = Elapsed(now + d1, timer.startExecution),
                 !.endOverhead = now + d1 + d2,
                 !.overhead = Elapsed(now + d1 + d2, timer.startOverhead)]
          /\ now' = now + d1 + d2
    /\ trace' = trace \o <<"end_execution", "end_overhead">>
    /\ goPc' = "mem_after"
    /\ UNCHANGED <<program, env, javaVars, sideVars, batchSize, images, labels, goRun,
                   batches, spawnIdx, wg, taskPc, taskImg, taskElem,
                   taskBatch, imagesAtStart, mem, cpu, totals, runLog,
                   averages>>

\* main: runtime.ReadMemStats(&memStatsAfter); memoryAfter := ..Alloc;
\* memoryUsage := memoryAfter - memoryBefore
GMemAfter ==
    /\ goPc = "mem_after"
    /\ \E m \in MemSamples :
          mem' = [mem EXCEPT !.after = m,
                             !.usage = MemoryUsageGo(m, mem.before)]
    /\ trace' = Append(trace, "mem_after")
    /\ goPc' = "cpu"
    /\ UNCHANGED <<program, env, javaVars, sideVars, batchSize, images, labels, goRun,
                   batches, spawnIdx, wg, taskPc, taskImg, taskElem,
                   taskBatch, imagesAtStart, now, timer, cpu, totals, runLog,
                   averages>>

\* main: startCPUTime := time.Now(); cpuUsage, err :=
\* calculateCPUUsage(time.Since(startCPUTime)): cpu.Percent(duration, false)
\* measures over the interval that starts at the call and lasts duration.
GCpu ==
    /\ goPc = "cpu"
    /\ \E u \in CpuSamples : cpu' = u
    /\ trace' = trace \o <<"cpu_window_open", "cpu_window_close">>
    /\ goPc' = "record"
    /\ UNCHANGED <<program, env, javaVars, sideVars, batchSize, images, labels, goRun,
                   batches, spawnIdx, wg, taskPc, taskImg, taskElem,
                   taskBatch, imagesAtStart, now, timer, mem, totals, runLog,
                   averages>>

\* if err != nil { log.Fatalf("Error calculating CPU usage: %v", err) }:
\* log.Fatalf prints and calls os.Exit(1)
OnProbeErrorIgnored == "record"

OnProbeError == "aborted_probe"

GCpuFails ==
    /\ goPc = "cpu"
    /\ goPc' = OnProbeError
    /\ UNCHANGED <<program, env, javaVars, sideVars, batchSize, images, labels, goRun,
                   batches, spawnIdx, wg, taskPc, taskImg, taskElem,
                   taskBatch, imagesAtStart, metricVars>>

\* main: total* += ...; AppendToLogFile(..) of the four metrics; i++
GRecord ==
    /\ goPc = "record"
    /\ totals' = [executionTime |-> totals.executionTime + timer.executionTime,
                  overhead |-> totals.overhead + timer.overhead,
                  memory |-> Uint64Add(totals.memory, mem.usage),
                  cpu |-> totals.cpu + cpu]
    /\ runLog' = Append(runLog, RunMetrics)
    /\ goRun' = goRun + 1
    /\ goPc' = "loop"
    /\ UNCHANGED <<program, env, javaVars, sideVars, batchSize, images, labels, batches,
                   spawnIdx, wg, taskPc, taskImg, taskElem, taskBatch,
                   imagesAtStart, now, timer, mem, cpu, averages, trace>>

\* main: after the loop the averages are logged
GAverages ==
    /\ goPc = "loop"
    /\ goRun >= numRuns
    /\ averages' = [executionTime |-> Average(totals.executionTime, numRuns),
                    overhead |-> Average(totals.overhead, numRuns),
                    memory |-> Average(totals.memory, numRuns),
                    cpu |-> Average(totals.cpu, numRuns)]
    /\ goPc' = "done"
    /\ UNCHANGED <<program, env, javaVars, sideVars, batchSize, images, labels, goRun,
                   batches, spawnIdx, wg, taskPc, taskImg, taskElem,
                   taskBatch, imagesAtStart, now, timer, mem, cpu, totals,
                   runLog, trace>>

\* batch.Images[i] = SimulateImageProcessing(image): the slice returned is
\* the one passed in, and it is stored back in its place
StoredBackShorter(image) == SubSeq(image, 1, Len(image) - 1)
StoredBack(image) == image

\* SimulateImageProcessing, loop body: image[i] = image[i] * 2
SimulateElementPlus(x) == x + 2
SimulateElement(x) == x * 2

\* SimulateImageProcessing: image[i] = image[i] * 2, one element per step,
\* on the image batch.Images[taskImg]; after the last element ProcessBatch
\* stores the slice back and moves to the next image of its batch
TaskWrite(t) ==
    /\ taskPc[t] = "loop"
    /\ taskImg[t] < BatchLen(taskBatch[t])
    /\ LET idx == ImageIndex(taskBatch[t], taskImg[t])
           k == taskElem[t] + 1
           written == [images[idx] EXCEPT ![k] = SimulateElement(@)]
       IN  /\ images' = [images EXCEPT ![idx] = IF k = Len(images[idx])
                                                THEN StoredBack(written)
                                                ELSE written]
           /\ IF k = Len(images[idx])
              THEN /\ taskImg' = [taskImg EXCEPT ![t] = @ + 1]
                   /\ taskElem' = [taskElem EXCEPT ![t] = 0]
              ELSE /\ taskElem' = [taskElem EXCEPT ![t] = k]
                   /\ UNCHANGED taskImg
    /\ UNCHANGED <<program, env, javaVars, sideVars, metricVars, batchSize, labels, goRun, goPc, batches,
                   spawnIdx, wg, taskPc, taskBatch, imagesAtStart>>

\* the range loop of ProcessBatch is exhausted: the deferred wg.Done() runs
TaskDone(t) ==
    /\ taskPc[t] = "loop"
    /\ RangeExhausted(taskBatch[t], taskImg[t])
    /\ wg' = wg - 1
    /\ taskPc' = [taskPc EXCEPT ![t] = "finished"]
    /\ UNCHANGED <<program, env, javaVars, sideVars, metricVars, batchSize, images, labels, goRun, goPc,
                   batches, spawnIdx, taskImg, taskElem, taskBatch,
                   imagesAtStart>>

GoNext ==
    \/ GLoad
    \/ GBeginRun \/ GDivide \/ GStartTimers \/ GAdd \/ GGo \/ GCallWait
    \/ GWait \/ GReturn \/ GMemAfter \/ GCpu \/ GRecord \/ GAverages
    \/ \E t \in Tasks : TaskWrite(t)
    \/ \E t \in Tasks : TaskDone(t)

\* ------------------------------------------------------------------------
\* A Transform applied to one vector, and appends to the log file
\* ------------------------------------------------------------------------

\* SimulateImageProcessing (Go): image[i] = image[i] * 2 for every element.
SimulateImageProcessing(image) == [k \in DOMAIN image |-> image[k] * 2]

\* the Transform of every harness
TransformOf(i, v) ==
    CASE i = "go" -> SimulateImageProcessing(v)
      [] i = "cifar" -> processBatch(v)
      [] i = "tiny" -> processImage(v)

\* element values of the float vectors of the CIFAR-10 harnesses
ScalarSamples == {0, 1, 100, 200}

\* pixels of a Tiny ImageNet image: a uniform one, and channels on both sides
\* of the point where the doubled value passes 255
PixelSamples ==
    {Pack(100, 100, 100), Pack(0, 127, 128), Pack(128, 255, 127),
     Pack(255, 0, 100), Pack(127, 128, 255)}

\* the Transform is applied to the vector once more
ApplyTransform ==
    /\ program = "unit"
    /\ applied < 2
    /\ vec' = TransformOf(impl, vec)
    /\ applied' = applied + 1
    /\ UNCHANGED <<program, env, javaVars, goVars, metricVars, loaderVars,
                   impl, vec0, logFile>>

\* the messages the harness logs
Messages == {"Dataset loaded successfully.", "Test log message"}

\* the line that carries a message: Go's logger (log.LstdFlags) writes the
\* date and time before it, Java's println writes the message alone
LogLine(i, message) ==
    [stamp |-> IF i = "go" THEN "date time " ELSE "",
     text |-> message]

\* AppendToLogFile / logMessage: the file is opened for appending (O_APPEND |
\* O_CREATE; new FileWriter(path, true)), created when it does not exist, and
\* the line is written at its end.
AfterAppendTruncating(file, line) == [exists |-> TRUE, lines |-> <<line>>]
AfterAppend(file, line) ==
    [exists |-> TRUE,
     lines |-> IF file.exists THEN Append(file.lines, line) ELSE <<line>>]

AppendToLogFile(message) ==
    /\ program = "unit"
    /\ Len(logFile.lines) < MaxLogLines
    /\ logFile' = AfterAppend(logFile, LogLine(impl, message))
    /\ UNCHANGED <<program, env, javaVars, goVars, metricVars, loaderVars,
                   impl, vec0, vec, applied>>

UnitNext ==
    \/ ApplyTransform
    \/ \E message \in Messages : AppendToLogFile(message)

\* ------------------------------------------------------------------------
\* Specifications
\* ------------------------------------------------------------------------

\* The concurrent pipeline is explored in full where the probes are steady;
\* where one probe varies the pipeline is a small one.
Quiet == env = "quiet"

JavaInit ==
    /\ dataset \in {"cifar", "tiny"}
    /\ queueCapacity \in (IF Quiet THEN 1..MaxQueueCapacity ELSE {1})
    /\ numConsumers \in (IF Quiet THEN 1..MaxConsumers ELSE {1})
    /\ allBatches \in {[b \in 1..n |-> LoadedImage(b)] :
                          n \in (IF Quiet THEN 0..MaxBatches ELSE {1})}
    /\ mainPc = (IF dataset = "tiny" THEN "loop" ELSE "load")

JavaOff ==
    /\ dataset = "cifar"
    /\ queueCapacity = 1
    /\ numConsumers = 1
    /\ allBatches = <<>>
    /\ mainPc = "off"

GoInit ==
    /\ batchSize \in (IF Quiet THEN 1..MaxBatchSize ELSE {1})
    /\ images \in {[i \in 1..n |-> LoadedImage(i)] :
                      n \in (IF Quiet THEN 0..MaxImages ELSE {1})}
    /\ goPc = "load"

GoOff ==
    /\ batchSize = 1
    /\ images = <<>>
    /\ goPc = "off"

PipelineInit ==
    /\ poolTimedOut = FALSE
    /\ loads = 0
    /\ loadFailed = FALSE
    /\ run = 0
    /\ execIdx = 0
    /\ queue = <<>>
    /\ isDoneProducing = FALSE
    /\ prodPc = "new"
    /\ prodIdx = 1
    /\ consPc = [c \in Consumers |-> "unstarted"]
    /\ consBatch = [c \in Consumers |-> 0]
    /\ putCount = [b \in 1..NumBatches |-> 0]
    /\ takeCount = [b \in 1..NumBatches |-> 0]
    /\ labels = [i \in 1..Len(images) |-> i % 10]
    /\ goRun = 0
    /\ batches = <<>>
    /\ spawnIdx = 0
    /\ wg = 0
    /\ taskPc = <<>>
    /\ taskImg = <<>>
    /\ taskElem = <<>>
    /\ taskBatch = <<>>
    /\ imagesAtStart = images
    /\ now = 0
    /\ timer = NoTimer
    /\ mem = NoMem
    /\ cpu = 0
    /\ totals = NoTotals
    /\ runLog = <<>>
    /\ averages = [executionTime |-> <<0, 0>>, overhead |-> <<0, 0>>,
                   memory |-> <<0, 0>>, cpu |-> <<0, 0>>]
    /\ trace = <<>>

UnitOff ==
    /\ impl = "go"
    /\ vec0 = <<>>
    /\ vec = <<>>
    /\ applied = 0
    /\ logFile = [exists |-> FALSE, lines |-> <<>>]

Init ==
    /\ program \in {"java", "go"}
    /\ env \in {"quiet", "clock", "memory", "cpu"}
    /\ IF program = "java" THEN JavaInit /\ GoOff ELSE JavaOff /\ GoInit
    /\ UnitOff
    /\ PipelineInit

\* A Transform and the log file on their own: the vector is any vector of
\* samples, the log file is absent or empty.
UnitInit ==
    /\ program = "unit"
    /\ env = "quiet"
    /\ JavaOff /\ GoOff
    /\ PipelineInit
    /\ impl \in {"go", "cifar", "tiny"}
    /\ vec0 \in [1..IMAGE_SIZE ->
                    IF impl = "tiny" THEN PixelSamples ELSE ScalarSamples]
    /\ vec = vec0
    /\ applied = 0
    /\ logFile \in {[exists |-> e, lines |-> <<>>] : e \in BOOLEAN}

Next == JavaNext \/ GoNext

Spec == Init /\ [][Next]_vars

\* The same harness when queue.put or processBatch may throw, or the bounded
\* wait of awaitTermination may give up.
GoFaults == GLoadFails

FaultNext == JavaNext \/ GoNext \/ JavaFaults \/ GoFaults

FaultSpec == Init /\ [][FaultNext]_vars

\* The harness with a CPU probe that may return an error.
ProbeFaultNext == Next \/ GCpuFails

ProbeFaultSpec == Init /\ [][ProbeFaultNext]_vars


\* Every thread of the harness is scheduled again and again.
MainStep ==
    \/ JNewRun \/ JMemBefore \/ JStartProducer \/ JStartOverhead
    \/ JStartTime \/ JExecute \/ JShutdown \/ JAwaitTermination
    \/ JEndTime \/ JEndOverhead \/ JJoin \/ JMemAfter \/ JCpu
    \/ JRecord \/ JAverages \/ JLoad

ProducerStep ==
    \/ ProducerPut \/ ProducerLoopEnd \/ ProducerSetDone \/ ProducerExit
    \/ ProducerWalk

ConsumerStep(c) ==
    /\ c \in Consumers
    /\ \/ ConsumerCheckDone(c) \/ ConsumerCheckEmpty(c)
       \/ ConsumerPoll(c) \/ ConsumerProcess(c)

GoMainStep ==
    \/ GLoad
    \/ GBeginRun \/ GDivide \/ GStartTimers \/ GAdd \/ GGo \/ GCallWait
    \/ GWait \/ GReturn \/ GMemAfter \/ GCpu \/ GRecord \/ GAverages

TaskStep(t) ==
    /\ t \in Tasks
    /\ (TaskWrite(t) \/ TaskDone(t))

Fairness ==
    /\ WF_vars(MainStep)
    /\ WF_vars(ProducerStep)
    /\ \A c \in 1..MaxConsumers : WF_vars(ConsumerStep(c))
    /\ WF_vars(GoMainStep)
    /\ \A t \in 1..MaxImages : WF_vars(TaskStep(t))

FairSpec == Init /\ [][Next]_vars /\ Fairness

\* A Transform applied to a vector, and appends to the log file.
UnitSpec == UnitInit /\ [][UnitNext]_vars

\* ------------------------------------------------------------------------
\* Properties
\* ------------------------------------------------------------------------

\* processBatches of the current run has returned
ProcessBatchesReturned ==
    mainPc \in {"end_timers", "end_overhead", "join", "mem_after", "cpu",
                "record"}

\* RunProcessingTask of the current run is past wg.Wait()
RunTaskReturned == goPc \in {"end_timers", "mem_after", "cpu", "record"}

\* number of dataset items covered by the batches
Covered == (Len(images) \div batchSize) * batchSize

\* what batch b holds after it was transformed once in each of n runs: the
\* CIFAR-10 list is transformed again in every run, Tiny ImageNet decodes
\* its files anew in every run
TransformedInRuns(b, n) ==
    IF dataset = "tiny"
    THEN processImage(LoadedImage(b))
    ELSE [k \in 1..IMAGE_SIZE |-> LoadedImage(b)[k] * Pow2(n)]

\* C1: once processBatches has returned, every batch of the list has been
\* put once, dequeued once and transformed once in this run (its elements
\* are the loaded ones doubled once per run so far), and the queue is empty.
C1_ExactlyOnceA ==
    ProcessBatchesReturned =>
        /\ queue = <<>>
        /\ \A b \in 1..NumBatches :
              /\ putCount[b] = 1
              /\ takeCount[b] = 1
              /\ allBatches[b] = TransformedInRuns(b, run + 1)

C1_Witness ==
    /\ mainPc = "end_timers"
    /\ NumBatches >= 3
    /\ numConsumers >= 2
    /\ run = 1
    /\ allBatches[3] = [k \in 1..IMAGE_SIZE |-> 12]

\* C2: when RunProcessingTask returns, every element of every covered
\* vector is exactly twice what it was when the run was entered.
C2_ExactlyOnceB ==
    RunTaskReturned =>
        \A i \in 1..Covered :
            images[i] = [k \in 1..imageSize |-> 2 * imagesAtStart[i][k]]

C2_Witness ==
    /\ goPc = "end_timers"
    /\ Len(images) = 3
    /\ batchSize = 2
    /\ images[2] = [k \in 1..imageSize |-> 2 * imagesAtStart[2][k]]

\* The producer can make no step on a full queue and no consumer is left to
\* drain it (every consumer exited, or is blocked in poll on an empty queue).
ProducerStuck ==
    /\ prodPc = "put"
    /\ prodIdx <= NumBatches
    /\ ~ENABLED ProducerPut
    /\ \A c \in Consumers :
          \/ consPc[c] = "exited"
          \/ consPc[c] = "poll" /\ Len(queue) = 0

\* C3: under fair scheduling every run of Strategy A ends: the producer puts
\* its last batch and sets the flag, every consumer exits and processBatches
\* returns; and the producer is never stuck on a full queue with no consumer
\* left to drain it.
C3_TerminatesA ==
    /\ (mainPc = "start_producer") ~>
          (/\ mainPc = "end_timers"
           /\ isDoneProducing
           /\ prodIdx > NumBatches
           /\ \A c \in Consumers : consPc[c] = "exited")
    /\ [](~ProducerStuck)

C3_Witness ==
    /\ mainPc = "end_timers"
    /\ queueCapacity = 1
    /\ numConsumers = 1
    /\ NumBatches = 5
    /\ takeCount = [b \in 1..5 |-> 1]

\* C4: RunProcessingTask is never past wg.Wait() while a goroutine it spawned
\* has not signalled Done, and no step writes the dataset between the return
\* of a run and the start of the next one.
AllTasksFinishedAfterWait ==
    goPc \in {"end_timers", "mem_after", "cpu", "record", "loop", "divide",
              "done"} =>
        \A t \in DOMAIN taskPc : taskPc[t] = "finished"

NoWriteAfterWait ==
    goPc \in {"end_timers", "mem_after", "cpu", "record", "loop", "divide",
              "done"} =>
        images' = images

C4_NoReturnBeforeDone ==
    /\ []AllTasksFinishedAfterWait
    /\ [][NoWriteAfterWait]_vars

C4_Witness ==
    /\ goPc = "end_timers"
    /\ Len(batches) >= 2
    /\ \A t \in Tasks : taskPc[t] = "finished"

C6_QueueBounded ==
    /\ Len(queue) <= queueCapacity
    /\ Len(queue) >= queueCapacity => ~ENABLED ProducerPut

C6_Witness ==
    /\ prodPc = "put"
    /\ prodIdx <= NumBatches
    /\ Len(queue) = queueCapacity
    /\ queueCapacity >= 2

\* the dataset indices (1-based) of the batch a goroutine was given
TaskRange(t) == (taskBatch[t].start + 1)..taskBatch[t].end

\* C7: no two consumers hold the same batch and no two running goroutines
\* have a vector in common; a step that changes a batch (a vector) is the
\* step of a worker that holds it (whose batch contains it).
ConsumersHoldDistinct ==
    \A c1, c2 \in Consumers :
        (c1 # c2 /\ consPc[c1] = "process" /\ consPc[c2] = "process")
            => consBatch[c1] # consBatch[c2]

TasksHoldDisjoint ==
    \A t1, t2 \in DOMAIN taskPc :
        (t1 # t2 /\ taskPc[t1] = "loop" /\ taskPc[t2] = "loop")
            => TaskRange(t1) \cap TaskRange(t2) = {}

\* (in Tiny ImageNet the image of a file is a new object once the producer
\* has decoded the file again: that step writes no image a worker holds)
ConsumerWritesOwnBatch ==
    \A b \in 1..NumBatches :
        allBatches'[b] # allBatches[b] =>
            \/ \E c \in Consumers :
                  /\ consPc[c] = "process"
                  /\ consBatch[c] = b
                  /\ consPc'[c] # "process"
            \/ /\ dataset = "tiny"
               /\ putCount'[b] = putCount[b] + 1
               /\ \A c \in Consumers : consBatch[c] # b

TaskWritesOwnBatch ==
    \A i \in 1..Len(images) :
        images'[i] # images[i] =>
            \E t \in DOMAIN taskPc :
                /\ taskPc[t] = "loop"
                /\ taskBatch[t] = batches[t]
                /\ i \in TaskRange(t)
                /\ <<taskImg'[t], taskElem'[t]>> # <<taskImg[t], taskElem[t]>>

C7_NoSharedBatch ==
    /\ []ConsumersHoldDistinct
    /\ []TasksHoldDisjoint
    /\ [][ConsumerWritesOwnBatch]_vars
    /\ [][TaskWritesOwnBatch]_vars

C7_Witness ==
    /\ numConsumers >= 2
    /\ consPc[1] = "process"
    /\ consPc[2] = "process"
    /\ consBatch[1] # consBatch[2]

\* C8: a consumer that has left its loop did so with the flag set and the
\* queue empty: while a consumer is exited no batch is in the queue and no
\* batch is still to be put.
C8_ExitOnlyWhenDrained ==
    \A c \in Consumers :
        consPc[c] = "exited" =>
            /\ isDoneProducing
            /\ queue = <<>>
            /\ \A b \in 1..NumBatches : putCount[b] = 1

C8_Witness ==
    /\ numConsumers >= 2
    /\ NumBatches >= 2
    /\ consPc[1] = "exited"
    /\ consPc[2] = "process"

\* C9: whenever the flag is true every batch of the list has been put on the
\* queue exactly once, on every path of the producer.
C9_FlagOnlyAfterLastPut ==
    isDoneProducing => \A b \in 1..NumBatches : putCount[b] = 1

\* C10: a failed transform is not followed by a normally completed run, and
\* never leaves the producer blocked on a full queue with every consumer
\* gone while main waits in producer.join().
C10_FailurePropagates ==
    /\ (\E c \in Consumers : consPc[c] = "failed") => mainPc # "record"
    /\ ~(/\ \E c \in Consumers : consPc[c] = "failed"
         /\ \A c \in Consumers : ConsumerGone(c)
         /\ prodPc = "put"
         /\ prodIdx <= NumBatches
         /\ Len(queue) = queueCapacity
         /\ mainPc = "join")

\* C11: when awaitTermination gave up while a consumer was still running,
\* processBatches does not return as if the run had completed and no metrics
\* of that run are recorded (the run is the last one: the log never gets its
\* NUM_RUNS-th line).
C11_TimeoutFailsRun ==
    poolTimedOut =>
        /\ ~ProcessBatchesReturned
        /\ Len(runLog) < NUM_RUNS

\* every batch of the list was put, dequeued and transformed in this run
RunProcessedEveryBatch ==
    \A b \in 1..NumBatches :
        /\ putCount[b] = 1
        /\ takeCount[b] = 1
        /\ \A c \in Consumers : consBatch[c] # b

RecordsOnlyCompleteRuns ==
    (program = "java" /\ runLog' # runLog) => RunProcessedEveryBatch

\* C12: a step that adds a run's metrics to the totals and to the log is
\* taken only in a run that processed every batch.
C12_NoPartialRunRecorded == [][RecordsOnlyCompleteRuns]_vars

\* RunProcessingTask has built its batches in this run
Divided ==
    goPc \in {"start_timers", "add", "go", "wait", "end_timers", "mem_after",
              "cpu", "record"}

\* the dataset indices (0-based) of the items of batches[i]
BatchItems(i) == batches[i].start .. (batches[i].end - 1)

\* the dataset indices (0-based) of the labels of batches[i]
BatchLabels(i) == batches[i].labelStart .. (batches[i].labelEnd - 1)

\* C13: the batching step yields exactly floor(N/batchSize) batches; batch i
\* (counted from 0) holds the batchSize items with the indices
\* [i*batchSize, (i+1)*batchSize) and the labels of the same indices; the
\* batches cover exactly [0, floor(N/batchSize)*batchSize) and no two of them
\* share an item.
C13_Batching ==
    Divided =>
        /\ Len(batches) = Len(images) \div batchSize
        /\ \A i \in 1..Len(batches) :
              /\ BatchItems(i) = ((i - 1) * batchSize) .. (i * batchSize - 1)
              /\ BatchLen(batches[i]) = batchSize
              /\ BatchLabels(i) = BatchItems(i)
        /\ UNION {BatchItems(i) : i \in 1..Len(batches)} =
              0 .. ((Len(images) \div batchSize) * batchSize - 1)
        /\ \A i, j \in 1..Len(batches) :
              i # j => BatchItems(i) \cap BatchItems(j) = {}

C13_Witness ==
    /\ Divided
    /\ Len(images) = 3
    /\ batchSize = 1
    /\ Len(batches) = 3
    /\ batches[3].start = 2

\* C14: the trailing N mod batchSize vectors are in no batch, and after any
\* number of runs they hold the values they were loaded with.
C14_RemainderUntouched ==
    \A i \in (Covered + 1)..Len(images) :
        /\ images[i] = LoadedImage(i)
        /\ \A t \in 1..Len(batches) : (i - 1) \notin BatchItems(t)

C14_Witness ==
    /\ goRun = 1
    /\ goPc = "record"
    /\ Len(images) = 3
    /\ batchSize = 2
    /\ images[3] = LoadedImage(3)
    /\ images[2] # LoadedImage(2)

\* main holds the complete timestamps of the current run
TimersComplete ==
    \/ mainPc \in {"join", "mem_after", "cpu", "record"}
    \/ goPc \in {"mem_after", "cpu", "record"}

\* C15: every recorded run has concurrencyOverhead >= executionTime, and
\* once a run's timestamps are complete the overhead start is no later than
\* the execution start and the overhead end no earlier than the execution
\* end.
C15_OverheadCoversExecution ==
    /\ \A k \in 1..Len(runLog) :
          runLog[k].overhead >= runLog[k].executionTime
    /\ TimersComplete =>
          /\ timer.startOverhead <= timer.startExecution
          /\ timer.endOverhead >= timer.startExecution + timer.executionTime

C15_Witness ==
    /\ env = "clock"
    /\ Len(runLog) = 2
    /\ runLog[1].executionTime > 0
    /\ runLog[1].overhead = runLog[1].executionTime
    /\ runLog[2].overhead > runLog[2].executionTime

\* in this run main executed statement a before every execution of b
Before(a, b) ==
    \A j \in 1..Len(trace) :
        trace[j] = b => \E i \in 1..(j - 1) : trace[i] = a

\* main has executed statement a in this run
Occurs(a) == \E i \in 1..Len(trace) : trace[i] = a

\* no consumer and no goroutine of the current run is still running
NoWorkerRunning ==
    /\ program = "java" => \A c \in Consumers : ConsumerGone(c)
    /\ program = "go" => \A t \in DOMAIN taskPc : taskPc[t] = "finished"

\* C16: the overhead start timestamp is taken before the producer thread is
\* started and before any worker is started, and the overhead end timestamp
\* after the last worker has finished.
C16_OverheadWindow ==
    /\ Before("start_overhead", "start_producer")
    /\ Before("start_overhead", "execute")
    /\ Before("start_overhead", "go")
    /\ Occurs("end_overhead") => NoWorkerRunning

\* the producer and every worker of the run that has just been executed are
\* finished
RunThreadsFinished ==
    /\ program = "java" =>
          /\ prodPc = "terminated"
          /\ \A c \in Consumers : consPc[c] = "exited"
    /\ program = "go" =>
          /\ wg = 0
          /\ \A t \in DOMAIN taskPc : taskPc[t] = "finished"

\* main is between the end of one run and the launch of the next one
BetweenRuns ==
    \/ mainPc = "record"
    \/ mainPc \in {"loop", "done"} /\ run >= 1
    \/ goPc = "record"
    \/ goPc \in {"loop", "divide", "done"} /\ goRun >= 1

\* a step that changes the accumulators is the recording step of one run:
\* it counts that run, logs its line, and no thread of the run is running
OneRunAtATime ==
    totals' # totals =>
        /\ RunThreadsFinished
        /\ Len(runLog') = Len(runLog) + 1
        /\ run' + goRun' = run + goRun + 1
        /\ Len(runLog') = run' + goRun'

\* C17: a run starts only after the producer and every worker of the run
\* before it have finished, and the accumulators are updated by one run at a
\* time.
C17_RunsSequential ==
    /\ [](BetweenRuns => RunThreadsFinished)
    /\ [][OneRunAtATime]_vars

C17_Witness ==
    /\ mainPc = "loop"
    /\ run = 1
    /\ numConsumers = 2
    /\ NumBatches >= 2
    /\ RunThreadsFinished
    /\ ENABLED JNewRun

Metrics == {"executionTime", "overhead", "memory", "cpu"}

\* the sum of metric f over the first k logged runs
RECURSIVE SumLog(_, _)
SumLog(f, k) == IF k = 0 THEN 0 ELSE runLog[k][f] + SumLog(f, k - 1)

\* main has left the run loop and logged the averages
AveragesLogged == mainPc = "done" \/ goPc = "done"

\* C18: every total is the sum of that metric over the runs recorded so far,
\* one line per run, and each average logged after the loop is the sum of
\* the metric over exactly numRuns runs divided by numRuns.
C18_AveragesAreMeans ==
    /\ Len(runLog) = run + goRun
    /\ \A f \in Metrics : totals[f] = SumLog(f, Len(runLog))
    /\ AveragesLogged =>
          /\ Len(runLog) = numRuns
          /\ \A f \in Metrics : averages[f] = <<SumLog(f, numRuns), numRuns>>

\* main holds both memory snapshots of the current run
MemComplete == mainPc \in {"cpu", "record"} \/ goPc \in {"cpu", "record"}

\* the recording step adds the signed difference of the run's two snapshots
AddsSignedDelta ==
    totals' # totals =>
        totals'.memory = totals.memory + (mem.after - mem.before)

\* C19: the memory delta of a run is the signed number after - before (it is
\* negative when after < before), and that number is what the recording
\* step adds to the total.
C19_SignedMemoryDelta ==
    /\ [](MemComplete => mem.usage = mem.after - mem.before)
    /\ [][AddsSignedDelta]_vars

\* C20: the memory-before snapshot is taken before both start timestamps,
\* the memory-after snapshot after both end timestamps, and when the
\* memory-after snapshot has been taken no worker and no producer of the run
\* is running.
C20_MemoryOutsideWindow ==
    /\ Before("mem_before", "start_overhead")
    /\ Before("mem_before", "start_time")
    /\ Before("mem_before", "start_execution")
    /\ program = "java" => Before("end_time", "mem_after")
    /\ program = "go" => Before("end_execution", "mem_after")
    /\ Before("end_overhead", "mem_after")
    /\ Occurs("mem_after") => RunThreadsFinished

C20_Witness ==
    /\ Occurs("mem_after")
    /\ program = "java"
    /\ dataset = "cifar"
    /\ numConsumers = 2
    /\ NumBatches >= 2
    /\ run = 1

\* the elements a Transform works on: the elements of a float vector, the
\* three channels of every pixel of an image
Elements(i, v) ==
    IF i = "tiny"
    THEN [k \in 1..(3 * Len(v)) |->
            LET rgb == v[((k - 1) \div 3) + 1]
            IN  CASE (k - 1) % 3 = 0 -> Red(rgb)
                  [] (k - 1) % 3 = 1 -> Green(rgb)
                  [] (k - 1) % 3 = 2 -> Blue(rgb)]
    ELSE v

\* C21: in every Transform implementation, after one application every
\* element e of the vector is 2*e and after two applications 4*e, with no
\* clamping.
C21_DoublesExactly ==
    program = "unit" =>
        \A k \in DOMAIN Elements(impl, vec) :
            Elements(impl, vec)[k] = Pow2(applied) * Elements(impl, vec0)[k]

\* an application of processImage sets every channel of every pixel to the
\* smaller of its double and 255, whatever the other channels and pixels are
ClampsEveryChannel ==
    (impl = "tiny" /\ applied' = applied + 1) =>
        \A k \in 1..Len(vec) :
            /\ Red(vec'[k]) = Min(2 * Red(vec[k]), 255)
            /\ Green(vec'[k]) = Min(2 * Green(vec[k]), 255)
            /\ Blue(vec'[k]) = Min(2 * Blue(vec[k]), 255)

\* C22: processImage maps every 8-bit channel c of every pixel to
\* min(2*c, 255); every channel stays within 0..255, and a uniform
\* (100,100,100) pixel becomes (200,200,200).
C22_ProcessImageClamps ==
    /\ [][ClampsEveryChannel]_vars
    /\ []((program = "unit" /\ impl = "tiny") =>
            \A k \in 1..Len(vec) :
                /\ vec[k] \in 0..Pack(255, 255, 255)
                /\ (applied = 1 /\ vec0[k] = Pack(100, 100, 100))
                      => vec[k] = Pack(200, 200, 200))

C22_Witness ==
    /\ program = "unit"
    /\ impl = "tiny"
    /\ applied = 1
    /\ vec0[1] = Pack(100, 100, 100)
    /\ vec[1] = Pack(200, 200, 200)
    /\ vec0[2] = Pack(128, 255, 127)
    /\ vec[2] = Pack(255, 255, 254)

\* the content of the log file (nothing when the file does not exist)
Content(file) == IF file.exists THEN file.lines ELSE <<>>

\* sequence p is a prefix of sequence q
IsPrefix(p, q) == Len(p) <= Len(q) /\ \A k \in 1..Len(p) : q[k] = p[k]

AppendKeepsContent ==
    \A message \in Messages :
        AppendToLogFile(message) =>
            /\ logFile'.exists
            /\ IsPrefix(Content(logFile), Content(logFile'))
            /\ Len(Content(logFile')) = Len(Content(logFile)) + 1
            /\ Content(logFile')[Len(Content(logFile'))].text = message

\* C27: an append to the log creates the file when it does not exist, keeps
\* the previous content as an unchanged prefix of the new content, and the
\* new content contains the message.
C27_AppendNeverTruncates == [][AppendKeepsContent]_vars

C27_Witness ==
    /\ program = "unit"
    /\ logFile.exists
    /\ Len(logFile.lines) = 2
    /\ logFile.lines[1].text = "Dataset loaded successfully."
    /\ logFile.lines[2].text = "Test log message"

\* No statement of any run has executed: no run is counted, no probe or timer
\* of a run was read, no thread or goroutine of a run exists and nothing was
\* recorded.
NoRunActivity ==
    /\ run = 0
    /\ goRun = 0
    /\ trace = <<>>
    /\ prodPc = "new"
    /\ \A c \in Consumers : consPc[c] = "unstarted"
    /\ spawnIdx = 0
    /\ runLog = <<>>
    /\ ~AveragesLogged

\* C23: a failure to load the dataset aborts the harness before any run
\* starts: after a load error no run is executed, no worker is launched and
\* no per-run or average metric is logged.
C23_LoadFailureAborts == loadFailed => NoRunActivity

ProbeAborted == goPc = "aborted_probe"

\* The step in which the CPU probe returns an error ends the process and
\* touches neither the totals, the log of the runs, the run counter nor the
\* averages.
ProbeErrorAborts ==
    GCpuFails => /\ goPc' = "aborted_probe"
                 /\ totals' = totals
                 /\ runLog' = runLog
                 /\ goRun' = goRun
                 /\ averages' = averages

\* C24: a failed CPU-sampling probe aborts the process: the metrics of the
\* failing run are not added to the totals, no later run starts and no
\* average block is logged.
C24_ProbeFailureAborts ==
    /\ [][ProbeErrorAborts]_vars
    /\ [](ProbeAborted => /\ Len(runLog) = goRun
                          /\ goRun < numRuns
                          /\ ~AveragesLogged
                          /\ ~ENABLED ProbeFaultNext)

C24_Witness ==
    /\ ProbeAborted
    /\ goRun = 1
    /\ Len(runLog) = 1
    /\ Len(trace) > 0

\* A run has started: main is inside the loop body or has counted a run.
RunStarted ==
    \/ run > 0
    \/ goRun > 0
    \/ mainPc \notin {"off", "load", "loop", "aborted_load"}
    \/ goPc \notin {"off", "load", "loop", "aborted_load"}

\* C25: the dataset is loaded into memory exactly once, before the first
\* timed run: every run works on the loaded data and no run or producer reads
\* the dataset from disk again.
C25_LoadedOnceBeforeRuns ==
    /\ loads <= 1
    /\ RunStarted => loads = 1

\* in this run main executed statement a before some execution of b
Precedes(a, b) ==
    \E i, j \in 1..Len(trace) : i < j /\ trace[i] = a /\ trace[j] = b

\* C26: the CPU-utilisation sample of a run is taken during the run's task
\* execution: the sampling window overlaps the interval from the launch of
\* the workers to the completion of the last worker, that is, it opens before
\* wg.Wait() has returned and closes after the first worker was launched.
C26_CpuSampledDuringRun ==
    (program = "go" /\ Occurs("cpu_window_close"))
        => /\ Precedes("cpu_window_open", "wait_returned")
           /\ (Occurs("go") => Precedes("go", "cpu_window_close"))

\* every vector of the batch goroutine t was given is twice what it was when
\* the run was entered
BatchDoubled(t) ==
    \A i \in TaskRange(t) :
        images[i] = [k \in 1..imageSize |-> 2 * imagesAtStart[i][k]]

\* A step that lowers the WaitGroup counter lowers it by one, is the return
\* of exactly one running ProcessBatch, and that goroutine's batch is wholly
\* doubled; a ProcessBatch that returns lowers the counter.
DoneOnceAfterBatch ==
    /\ wg' < wg =>
          /\ wg' = wg - 1
          /\ \E t \in DOMAIN taskPc :
                /\ taskPc[t] = "loop"
                /\ taskPc'[t] = "finished"
                /\ BatchDoubled(t)
                /\ \A u \in DOMAIN taskPc \ {t} : taskPc'[u] = taskPc[u]
    /\ \A t \in DOMAIN taskPc \cap DOMAIN taskPc' :
          (taskPc[t] = "loop" /\ taskPc'[t] = "finished") => wg' = wg - 1

\* the goroutines launched in this run that have not signalled yet are
\* counted by the WaitGroup, up to the Add of a goroutine about to be launched
SignalsCounted ==
    program = "go" =>
        wg = Cardinality({t \in DOMAIN taskPc : taskPc[t] = "loop"})
             + (IF goPc = "go" THEN 1 ELSE 0)

\* C28: each ProcessBatch invocation signals completion (wg.Done) exactly
\* once, and only after every element of every image of its batch has been
\* doubled.
C28_DoneOnceAfterBatch ==
    /\ [][DoneOnceAfterBatch]_vars
    /\ []SignalsCounted

C28_Witness ==
    /\ Len(batches) >= 2
    /\ batchSize = 2
    /\ taskPc[1] = "finished"
    /\ taskPc[2] = "loop"
    /\ wg = 1
    /\ BatchDoubled(1)
    /\ ~BatchDoubled(2)

Launched == {t \in DOMAIN taskPc : taskPc[t] # "unspawned"}

Signalled == {t \in DOMAIN taskPc : taskPc[t] = "finished"}

\* RunProcessingTask is inside the fan-out of the current run
InFanOut == goPc \in {"add", "go", "wait"}

\* C29: RunProcessingTask launches exactly one task per batch, task i on
\* batch i, numBatches tasks in all, and stays blocked in wg.Wait() until the
\* number of completion signals equals the number of batches.
C29_OneTaskPerBatch ==
    program = "go" =>
        /\ (InFanOut \/ RunTaskReturned) =>
              /\ Launched = 1..spawnIdx
              /\ \A t \in Launched : taskBatch[t] = batches[t]
        /\ (goPc = "wait" \/ RunTaskReturned) =>
              Cardinality(Launched) = Len(batches)
        /\ (goPc = "wait" /\ Cardinality(Signalled) < Len(batches)) =>
              ~ENABLED GWait
        /\ RunTaskReturned => Cardinality(Signalled) = Len(batches)

C29_Witness ==
    /\ goPc = "wait"
    /\ Len(batches) = 2
    /\ Cardinality(Launched) = 2
    /\ Cardinality(Signalled) = 1
    /\ taskBatch[2] = batches[2]
    /\ ~ENABLED GWait

\* number of batches enqueued (dequeued) so far in this run
PutSoFar == Cardinality({b \in 1..NumBatches : putCount[b] >= 1})

TakenSoFar == Cardinality({b \in 1..NumBatches : takeCount[b] >= 1})

\* the queue holds the batches enqueued and not yet dequeued, oldest first
QueueInDatasetOrder ==
    program = "java" =>
        queue = [i \in 1..(PutSoFar - TakenSoFar) |-> TakenSoFar + i]

\* the k-th enqueue puts the k-th batch of the list and the k-th successful
\* dequeue, whichever consumer makes it, returns the k-th batch
KthDequeueIsKthBatch ==
    /\ Len(queue') > Len(queue) =>
          queue'[Len(queue')] = PutSoFar + 1
    /\ \A c \in Consumers :
          (consPc[c] = "poll" /\ consPc'[c] = "process") =>
              consBatch'[c] = TakenSoFar + 1

\* C30: the producer enqueues the batches in dataset order and the queue is
\* FIFO, so the k-th dequeue over all consumers returns the k-th batch of the
\* dataset; batches may complete out of order.
C30_FifoOrder ==
    /\ []QueueInDatasetOrder
    /\ [][KthDequeueIsKthBatch]_vars

\* consumer 2 took batch 2 after consumer 1 took batch 1 and has finished it
\* while consumer 1 is still processing batch 1
C30_Witness ==
    /\ numConsumers = 2
    /\ NumBatches >= 2
    /\ consPc[1] = "process"
    /\ consBatch[1] = 1
    /\ takeCount[2] = 1
    /\ consPc[2] = "check_done"
    /\ allBatches[2] = TransformedInRuns(2, run + 1)
    /\ allBatches[1] # TransformedInRuns(1, run + 1)

\* the batches put on the queue and not yet fully transformed: those still
\* queued and those a consumer has dequeued and is processing
InFlight ==
    Len(queue) + Cardinality({c \in Consumers : consPc[c] = "process"})

\* C31 as claimed: the number of batches in flight never exceeds the queue
\* capacity Q.
C31_InFlightAtMostQ == program = "java" => InFlight <= queueCapacity

\* C31 amended: the queue never holds more than Q batches and every consumer
\* holds at most one more, so at most Q + NUM_CONSUMERS batches are in flight.
C31_InFlightAtMostQPlusW ==
    program = "java" =>
        /\ Len(queue) <= queueCapacity
        /\ InFlight <= queueCapacity + numConsumers

C31_Witness ==
    /\ program = "java"
    /\ queueCapacity = 2
    /\ numConsumers = 2
    /\ Len(queue) = queueCapacity
    /\ InFlight = queueCapacity + numConsumers

\* C32: in the Java CIFAR-10 harness every batch put on the queue contains
\* exactly BATCH_SIZE contiguous vectors of the dataset, and the number of
\* batches enqueued per run is floor(N / BATCH_SIZE), N being the number of
\* vectors loaded.
C32_BatchesOfBatchSize ==
    (program = "java" /\ dataset = "cifar") =>
        /\ \A b \in 1..NumBatches :
              putCount[b] >= 1 => Len(BatchVectors(b)) = BATCH_SIZE
        /\ prodPc \in {"exiting", "terminated"} =>
              Cardinality({b \in 1..NumBatches : putCount[b] >= 1})
                  = VectorsLoaded \div BATCH_SIZE

\* main of the Go harness is between two runs, or before the fan-out of the
\* run that follows goRun completed ones
GoBetweenRuns == goPc \in {"load", "loop", "divide", "start_timers", "done"}

\* vector i holds its loaded value doubled n times
DoubledTimes(i, n) ==
    images[i] = [k \in 1..imageSize |-> LoadedImage(i)[k] * Pow2(n)]

\* C33: after r completed runs of the Go harness every element of every
\* covered vector is 2^r times its loaded value (once RunProcessingTask of
\* the next run has returned, 2^(r+1) times), and the vectors beyond the
\* covered ones keep their loaded value.
C33_DoubledOncePerRun ==
    program = "go" =>
        /\ GoBetweenRuns => \A i \in 1..Covered : DoubledTimes(i, goRun)
        /\ RunTaskReturned => \A i \in 1..Covered : DoubledTimes(i, goRun + 1)
        /\ \A i \in (Covered + 1)..Len(images) : DoubledTimes(i, 0)

C33_Witness ==
    /\ goPc = "done"
    /\ goRun = numRuns
    /\ goRun >= 2
    /\ Len(images) = 3
    /\ batchSize = 2
    /\ DoubledTimes(1, goRun)
    /\ DoubledTimes(3, 0)

\* the tasks RunProcessingTask has registered with wg.Add(1) in this run: one
\* per goroutine started, and the one whose go statement comes next
Registered == spawnIdx + (IF goPc = "go" THEN 1 ELSE 0)

\* a goroutine is started only in the step after its Add
AddBeforeGo ==
    \A t \in DOMAIN taskPc \cap DOMAIN taskPc' :
        (taskPc[t] = "unspawned" /\ taskPc'[t] # "unspawned") =>
            /\ goPc = "go"
            /\ wg >= 1
            /\ Registered = t

\* C34: the WaitGroup counter is never negative and equals the tasks
\* registered so far minus those that have signalled Done; every task is
\* registered before its goroutine is started, and while wg.Wait() is
\* pending the counter is zero only if every batch is registered and every
\* spawned task has finished.
C34_BarrierCounter ==
    /\ [](program = "go" =>
            /\ wg >= 0
            /\ wg = Registered - Cardinality(Signalled)
            /\ (goPc = "wait" /\ wg = 0) =>
                  /\ Registered = Len(batches)
                  /\ \A t \in DOMAIN taskPc : taskPc[t] = "finished")
    /\ [][AddBeforeGo]_vars

C34_Witness ==
    /\ goPc = "go"
    /\ spawnIdx = 1
    /\ taskPc[1] = "finished"
    /\ wg = 1
    /\ Registered = 2

\* the Go dataset is shorter than one batch; the Java list is empty
GoZeroBatches == program = "go" /\ Len(images) < batchSize

JavaZeroBatches == program = "java" /\ NumBatches = 0

\* A run with zero batches starts no goroutine, writes no vector and finds
\* wg.Wait() open; with an empty list nothing is ever queued or processed.
ZeroBatchRunIdle ==
    /\ GoZeroBatches =>
          /\ spawnIdx = 0
          /\ wg = 0
          /\ goPc \notin {"load", "loop", "divide"} => batches = <<>>
          /\ \A i \in 1..Len(images) : DoubledTimes(i, 0)
          /\ goPc = "wait" => ENABLED GWait
    /\ JavaZeroBatches =>
          /\ queue = <<>>
          /\ \A c \in Consumers : consPc[c] # "process"

\* C35: a run with zero batches terminates and changes nothing: in Go no
\* goroutine is spawned, wg.Wait() returns at once and no vector is written;
\* in Java the producer sets the flag without enqueuing, every consumer exits
\* and processBatches returns.
C35_ZeroBatchRun ==
    /\ []ZeroBatchRunIdle
    /\ (GoZeroBatches /\ goPc = "start_timers") ~> RunTaskReturned
    /\ (JavaZeroBatches /\ mainPc = "start_producer") ~>
          (/\ ProcessBatchesReturned
           /\ isDoneProducing
           /\ \A c \in Consumers : consPc[c] = "exited")

C35_Witness ==
    /\ GoZeroBatches
    /\ Len(images) = 1
    /\ goRun = 1
    /\ goPc = "end_timers"
    /\ batches = <<>>
    /\ images = imagesAtStart

\* A step leaves the labels, the number of vectors and the length of every
\* vector as they are; vector i stays vector i, each of its elements either
\* kept or doubled, and a vector beyond the covered ones is not written.
ShapeAndLabelsKept ==
    program = "go" =>
        /\ labels' = labels
        /\ Len(images') = Len(images)
        /\ \A i \in 1..Len(images) :
              /\ Len(images'[i]) = Len(images[i])
              /\ \A k \in 1..Len(images[i]) :
                    images'[i][k] \in {images[i][k], 2 * images[i][k]}
              /\ i > Covered => images'[i] = images[i]

\* C36: no worker modifies the labels or the shape of the data: across any
\* run the labels, the number of vectors, their order and the length of each
\* vector are unchanged; only element values of covered vectors change.
C36_FrameOfRun ==
    /\ [][ShapeAndLabelsKept]_vars
    /\ [](program = "go" =>
            /\ labels = [i \in 1..Len(images) |-> i % 10]
            /\ \A i \in 1..Len(images) : Len(images[i]) = imageSize)

C36_Witness ==
    /\ goPc = "done"
    /\ goRun = numRuns
    /\ Len(images) = 3
    /\ batchSize = 2
    /\ images[1] # LoadedImage(1)
    /\ images[3] = LoadedImage(3)
    /\ labels = <<1, 2, 3>>

\* main enters the body of the loop over the runs
RunBegins == mainPc = "loop" /\ mainPc' \notin {"loop", "done"}

\* A run begins with an empty queue, the flag false and nothing put or taken;
\* a consumer dequeues only a batch the producer of its own run has put and
\* no consumer of the run has taken, and it leaves its loop only on the flag
\* set by the producer of its own run.
RunOwnsQueueAndFlag ==
    /\ RunBegins =>
          /\ queue' = <<>>
          /\ ~isDoneProducing'
          /\ \A b \in 1..NumBatches : putCount'[b] = 0 /\ takeCount'[b] = 0
    /\ \A c \in Consumers :
          /\ (consPc[c] = "poll" /\ consPc'[c] = "process") =>
                /\ putCount[consBatch'[c]] = 1
                /\ takeCount[consBatch'[c]] = 0
          /\ (consPc[c] # "exited" /\ consPc'[c] = "exited") =>
                /\ prodPc \in {"exiting", "terminated"}
                /\ isDoneProducing

\* C37: each Java run uses its own queue and its own producing-finished
\* flag: at the start of every run the queue is empty and the flag false, and
\* a batch enqueued by the producer of run i is only dequeued by a consumer of
\* run i, so that nothing left by an earlier run makes a consumer exit early
\* or process a batch twice.
C37_RunsShareNoQueue ==
    /\ [][RunOwnsQueueAndFlag]_vars
    /\ [](program = "java" =>
            (prodPc = "new" => queue = <<>> /\ ~isDoneProducing))

C37_Witness ==
    /\ program = "java"
    /\ run = 1
    /\ NumBatches >= 2
    /\ ~isDoneProducing
    /\ consPc[1] = "process"
    /\ consBatch[1] = 1
    /\ putCount[1] = 1
    /\ takeCount[1] = 1

====
